---- MODULE Spec2Model ----
(***************************************************************************)
(* The Coverflow component of react-spring-coverflow: the position state,  *)
(* the window of visible items, the transform of an item, the drag handler *)
(* and the click handler.                                                   *)
(*                                                                          *)
(* Numbers are integers.  dragSpeed is counted in quarters (the step of    *)
(* the storybook control), so dragSpringX is counted in quarter pixels.    *)
(* Both notification callbacks are taken to be supplied, so a call         *)
(* `itemClicked?.(v)` is recorded in `fired`.                              *)
(***************************************************************************)
EXTENDS Integers, Sequences, FiniteSets, TLC

\* ------------------------------------------------------------------ bounds
MaxItems == 3        \* the list has 0..MaxItems items
MaxSide == 2         \* sideItems is 0..MaxSide
MaxMx == 4           \* a drag sample's movement is -MaxMx..MaxMx
MaxOffset == 3       \* TransformSpec applies getTransform to -MaxOffset..MaxOffset

DragThresholds == {1, 2}     \* the values of dragThreshold, in pixels
DefaultDragSpeed == 2        \* dragSpeed = 0.5, in quarters
TwinDragSpeeds == {1}        \* the dragSpeed of the second run: 0.25

VARIABLES
    items,          \* props.items, a sequence (1-based here, 0-based in the source)
    sideItems,      \* props.sideItems
    clickableSide,  \* props.clickableSide
    dragThreshold,  \* props.dragThreshold
    dragSpeed,      \* props.dragSpeed, in quarters
    config,         \* props scale, scaleRatio, angle, gap, centreGap, perspective, depth
    position,       \* useState: index of the centred item
    preventClick,   \* useRef: the next click is swallowed
    lastX,          \* useRef: movement at the last commit of this gesture
    dragSpringX,    \* the x last handed to dragSpringsApi.start, in quarter pixels
    fired,          \* the notifications fired by the last event, in order
    event,          \* the last event delivered, its arguments, and what the
                    \* handler found: position, preventClick, lastX, pendingCommit
    gesture,        \* the gesture in progress: whether the pointer is down, the last
                    \* movement, whether the movements so far are monotonic (away
                    \* from 0), whether they are and the first was 0, and the
                    \* commits counted while they are monotonic (0 once not)
    pendingCommit,  \* history: a sample has committed and no click was handled since
    twin,           \* a second run: same props and events, another dragSpeed
    tIndex,         \* TransformSpec: the index given to getTransform
    tOut            \* TransformSpec: what getTransform / getZIndex returned

vars == <<items, sideItems, clickableSide, dragThreshold, dragSpeed, config,
          position, preventClick, lastX, dragSpringX, fired, event, gesture,
          pendingCommit, twin, tIndex, tOut>>

props == <<items, sideItems, clickableSide, dragThreshold, dragSpeed, config>>

\* ------------------------------------------------------------- arithmetic
Abs(n) == IF n < 0 THEN -n ELSE n

Sign(n) == IF n > 0 THEN 1 ELSE IF n < 0 THEN -1 ELSE 0

Max(a, b) == IF a >= b THEN a ELSE b

Min(a, b) == IF a <= b THEN a ELSE b

\* Array.prototype.slice(from, to) for 0 <= from, 0 <= to <= length
Slice(s, from, to) == SubSeq(s, from + 1, to)

\* ------------------------------------------------------------- Position
clampPositionOffByOne(n) == Max(0, Min(n, Len(items)))

clampPosition(n) == Max(0, Min(n, Len(items) - 1))

\* ------------------------------------------------------------- Windowing
withKeys(its) == [i \in 1..Len(its) |-> [key |-> i - 1, item |-> its[i]]]

withIndexFromSlice(offset, its) ==
    [i \in 1..Len(its) |->
        [key |-> its[i].key, item |-> its[i].item, index |-> (i - 1) - offset]]

withIndexReversed(offset, its) ==
    [i \in 1..Len(its) |->
        [key |-> its[i].key, item |-> its[i].item, index |-> offset - its[i].key]]

withIndex(offset, its) ==
    [i \in 1..Len(its) |->
        [key |-> its[i].key, item |-> its[i].item, index |-> its[i].key - offset]]

windowStart(p) == Max(p - sideItems, 0)

windowEndNoCentre(p) == Min(p + sideItems, Len(items))

windowEnd(p) == Min(p + sideItems + 1, Len(items))

visibleItemsAt(p) == withIndex(p, Slice(withKeys(items), windowStart(p), windowEnd(p)))

visibleItems == visibleItemsAt(position)

\* ------------------------------------------------------ Transform Function
getTransformNoSign(index) ==
    LET transX == IF index = 0 THEN 0
                  ELSE config.centreGap * index + config.gap * index
        rotation == IF index = 0 THEN 0 ELSE (-Sign(index)) * config.angle
        scaleXY == config.scale * (IF index = 0 THEN 1 ELSE config.scaleRatio)
        transZ == IF index = 0 THEN 0 ELSE -config.depth
    IN  [perspective |-> config.perspective, transX |-> transX, transZ |-> transZ,
         rotation |-> rotation, scaleXY |-> scaleXY]

getTransformOneSided(index) ==
    LET transX == IF index = 0 THEN 0
                  ELSE config.centreGap * Sign(index) + config.gap * index
        rotation == IF index = 0 THEN 0 ELSE -config.angle
        scaleXY == config.scale * (IF index = 0 THEN 1 ELSE config.scaleRatio)
        transZ == IF index = 0 THEN 0 ELSE -config.depth
    IN  [perspective |-> config.perspective, transX |-> transX, transZ |-> transZ,
         rotation |-> rotation, scaleXY |-> scaleXY]

\* The template string of getTransform, kept as the numbers it interpolates.
getTransform(index) ==
    LET transX == IF index = 0 THEN 0
                  ELSE config.centreGap * Sign(index) + config.gap * index
        rotation == IF index = 0 THEN 0 ELSE (-Sign(index)) * config.angle
        scaleXY == config.scale * (IF index = 0 THEN 1 ELSE config.scaleRatio)
        transZ == IF index = 0 THEN 0 ELSE -config.depth
    IN  [perspective |-> config.perspective, transX |-> transX, transZ |-> transZ,
         rotation |-> rotation, scaleXY |-> scaleXY]

\* The first version of the component divides by Math.abs(index) instead of
\* calling Math.sign; both quotients are exact for integers.
getTransformDiv(index) ==
    LET transX == IF index = 0 THEN 0
                  ELSE ((config.centreGap * index) \div Abs(index)) + config.gap * index
        rotation == IF index = 0 THEN 0 ELSE (-(index \div Abs(index))) * config.angle
        scaleXY == config.scale * (IF index = 0 THEN 1 ELSE config.scaleRatio)
        transZ == IF index = 0 THEN 0 ELSE -config.depth
    IN  [perspective |-> config.perspective, transX |-> transX, transZ |-> transZ,
         rotation |-> rotation, scaleXY |-> scaleXY]

getZIndex(index) == 100 - Abs(index)

\* --------------------------------------------------------------- handlers
\* The state one mounted component owns.
State == [position |-> position, preventClick |-> preventClick, lastX |-> lastX,
          dragSpringX |-> dragSpringX, fired |-> fired]

\* The test of the useDrag handler: the sample lies more than dragThreshold
\* from the baseline, which the first sample of a gesture resets to 0.
dragCommitsAtThreshold(s, first, mx) ==
    Abs(mx - (IF first THEN 0 ELSE s.lastX)) >= dragThreshold

dragCommits(s, first, mx) ==
    Abs(mx - (IF first THEN 0 ELSE s.lastX)) > dragThreshold

dragHandlerSuppressOnMove(s, speed, first, active, mx) ==
    LET base == IF first THEN 0 ELSE s.lastX
        newX == mx - base
        commit == dragCommits(s, first, mx)
        moved == clampPosition(s.position - Sign(newX))
    IN  [position |-> IF commit THEN moved ELSE s.position,
         preventClick |-> IF commit /\ moved # s.position THEN TRUE ELSE s.preventClick,
         lastX |-> IF commit THEN mx ELSE base,
         dragSpringX |-> IF active THEN newX * speed ELSE 0,
         fired |-> << >>]

dragHandlerScaled(s, speed, first, active, mx) ==
    LET base == IF first THEN 0 ELSE s.lastX
        newX == mx - base
        commit == Abs(newX * speed) > dragThreshold * 4
    IN  [position |-> IF commit THEN clampPosition(s.position - Sign(newX))
                      ELSE s.position,
         preventClick |-> IF commit THEN TRUE ELSE s.preventClick,
         lastX |-> IF commit THEN mx ELSE base,
         dragSpringX |-> IF active THEN newX * speed ELSE 0,
         fired |-> << >>]

dragHandlerReversed(s, speed, first, active, mx) ==
    LET base == IF first THEN 0 ELSE s.lastX
        newX == mx - base
        commit == dragCommits(s, first, mx)
    IN  [position |-> IF commit THEN clampPosition(s.position + Sign(newX)) ELSE s.position,
         preventClick |-> IF commit THEN TRUE ELSE s.preventClick,
         lastX |-> IF commit THEN mx ELSE base,
         dragSpringX |-> IF active THEN newX * speed ELSE 0,
         fired |-> << >>]

dragHandlerNoReset(s, speed, first, active, mx) ==
    LET base == s.lastX
        newX == mx - base
        commit == Abs(mx - s.lastX) > dragThreshold
    IN  [position |-> IF commit THEN clampPosition(s.position - Sign(newX)) ELSE s.position,
         preventClick |-> IF commit THEN TRUE ELSE s.preventClick,
         lastX |-> IF commit THEN mx ELSE base,
         dragSpringX |-> IF active THEN newX * speed ELSE 0,
         fired |-> << >>]

dragHandlerFollowAfterCommit(s, speed, first, active, mx) ==
    LET base == IF first THEN 0 ELSE s.lastX
        newX == mx - base
        commit == dragCommits(s, first, mx)
    IN  [position |-> IF commit THEN clampPosition(s.position - Sign(newX)) ELSE s.position,
         preventClick |-> IF commit THEN TRUE ELSE s.preventClick,
         lastX |-> IF commit THEN mx ELSE base,
         dragSpringX |-> IF active THEN (mx - (IF commit THEN mx ELSE base)) * speed ELSE 0,
         fired |-> << >>]

dragHandlerKeepBaseline(s, speed, first, active, mx) ==
    LET base == IF first THEN 0 ELSE s.lastX
        newX == mx - base
        commit == dragCommits(s, first, mx)
    IN  [position |-> IF commit THEN clampPosition(s.position - Sign(newX)) ELSE s.position,
         preventClick |-> IF commit THEN TRUE ELSE s.preventClick,
         lastX |-> base,
         dragSpringX |-> IF active THEN newX * speed ELSE 0,
         fired |-> << >>]

dragHandlerSkipAtBoundary(s, speed, first, active, mx) ==
    LET base == IF first THEN 0 ELSE s.lastX
        newX == mx - base
        commit == dragCommits(s, first, mx) /\ clampPosition(s.position - Sign(mx - (IF first THEN 0 ELSE s.lastX))) # s.position
    IN  [position |-> IF commit THEN clampPosition(s.position - Sign(newX)) ELSE s.position,
         preventClick |-> IF commit THEN TRUE ELSE s.preventClick,
         lastX |-> IF commit THEN mx ELSE base,
         dragSpringX |-> IF active THEN newX * speed ELSE 0,
         fired |-> << >>]

dragHandlerActiveOnly(s, speed, first, active, mx) ==
    LET base == IF first THEN 0 ELSE s.lastX
        newX == mx - base
        commit == active /\ dragCommits(s, first, mx)
    IN  [position |-> IF commit THEN clampPosition(s.position - Sign(newX)) ELSE s.position,
         preventClick |-> IF commit THEN TRUE ELSE s.preventClick,
         lastX |-> IF commit THEN mx ELSE base,
         dragSpringX |-> IF active THEN newX * speed ELSE 0,
         fired |-> << >>]

\* The useDrag handler on one sample {first, active, movement: [mx]}.
dragHandler(s, speed, first, active, mx) ==
    LET base == IF first THEN 0 ELSE s.lastX
        newX == mx - base
        commit == dragCommits(s, first, mx)
    IN  [position |-> IF commit THEN clampPosition(s.position - Sign(newX))
                      ELSE s.position,
         preventClick |-> IF commit THEN TRUE ELSE s.preventClick,
         lastX |-> IF commit THEN mx ELSE base,
         dragSpringX |-> IF active THEN newX * speed ELSE 0,
         fired |-> << >>]

handleClickJump(s, item) ==
    IF s.preventClick
    THEN [s EXCEPT !.preventClick = FALSE, !.fired = << >>]
    ELSE IF item.index = 0
         THEN [s EXCEPT !.fired = <<[name |-> "itemClicked", item |-> item.item]>>]
         ELSE [s EXCEPT !.fired = <<[name |-> "sideItemClicked", item |-> item.item]>>,
                        !.position = IF clickableSide THEN @ + item.index ELSE @]

handleClickAlwaysAdvance(s, item) ==
    IF s.preventClick
    THEN [s EXCEPT !.preventClick = FALSE, !.fired = << >>]
    ELSE IF item.index = 0
         THEN [s EXCEPT !.fired = <<[name |-> "itemClicked", item |-> item.item]>>]
         ELSE [s EXCEPT !.fired = <<[name |-> "sideItemClicked", item |-> item.item]>>,
                        !.position = @ + Sign(item.index)]

handleClickNoElse(s, item) ==
    IF s.preventClick
    THEN [s EXCEPT !.preventClick = FALSE, !.fired = << >>]
    ELSE IF item.index = 0
         THEN [s EXCEPT !.fired = <<[name |-> "itemClicked", item |-> item.item]>>]
         ELSE [s EXCEPT !.fired = <<[name |-> "itemClicked", item |-> item.item],
                                    [name |-> "sideItemClicked", item |-> item.item]>>,
                        !.position = IF clickableSide THEN @ + Sign(item.index) ELSE @]

handleClickSticky(s, item) ==
    IF s.preventClick
    THEN [s EXCEPT !.fired = << >>]
    ELSE IF item.index = 0
         THEN [s EXCEPT !.fired = <<[name |-> "itemClicked", item |-> item.item]>>]
         ELSE [s EXCEPT !.fired = <<[name |-> "sideItemClicked", item |-> item.item]>>,
                        !.position = IF clickableSide THEN @ + Sign(item.index) ELSE @]

\* handleClick on a rendered item {key, item, index}.
handleClick(s, item) ==
    IF s.preventClick
    THEN [s EXCEPT !.preventClick = FALSE, !.fired = << >>]
    ELSE IF item.index = 0
         THEN [s EXCEPT !.fired = <<[name |-> "itemClicked", item |-> item.item]>>]
         ELSE [s EXCEPT !.fired = <<[name |-> "sideItemClicked", item |-> item.item]>>,
                        !.position = IF clickableSide THEN @ + Sign(item.index) ELSE @]

\* What a handler finds when it is called.
Before == [position |-> position, preventClick |-> preventClick, lastX |-> lastX,
           pending |-> pendingCommit]

Store(s) ==
    /\ position' = s.position
    /\ preventClick' = s.preventClick
    /\ lastX' = s.lastX
    /\ dragSpringX' = s.dragSpringX
    /\ fired' = s.fired

\* ------------------------------------------------------------------- Init
DefaultConfig == [scale |-> 1, scaleRatio |-> 1, angle |-> 60, gap |-> 20,
                  centreGap |-> 40, perspective |-> 1000, depth |-> 200]

Images(n) == [i \in 1..n |-> [src |-> i - 1]]

\* The first version of the component clamps startPosition in place.
initialPosition(startPosition) == Max(0, Min(startPosition, Len(items) - 1))

MountUnclamped(startPosition) ==
    [position |-> startPosition, preventClick |-> FALSE, lastX |-> 0,
     dragSpringX |-> 0, fired |-> << >>]

\* Mounting: useState(clampPosition(startPosition)), useRef(false), useRef(0).
Mount(startPosition) ==
    [position |-> clampPosition(startPosition), preventClick |-> FALSE, lastX |-> 0,
     dragSpringX |-> 0, fired |-> << >>]

NoGesture == [dragging |-> FALSE, mx |-> 0, fromZero |-> TRUE, commits |-> 0,
              monotonic |-> TRUE]

Init ==
    /\ items \in {Images(n) : n \in 0..MaxItems}
    /\ sideItems \in 0..MaxSide
    /\ clickableSide \in BOOLEAN
    /\ dragThreshold \in DragThresholds
    /\ dragSpeed = DefaultDragSpeed
    /\ config = DefaultConfig
    /\ \E startPosition \in -1..(MaxItems + 1) :
          /\ event = [kind |-> "mount", startPosition |-> startPosition]
          /\ position = Mount(startPosition).position
          /\ preventClick = Mount(startPosition).preventClick
          /\ lastX = Mount(startPosition).lastX
          /\ dragSpringX = Mount(startPosition).dragSpringX
          /\ fired = Mount(startPosition).fired
          /\ twin \in {[speed |-> sp, state |-> Mount(startPosition)] :
                          sp \in TwinDragSpeeds}
    /\ gesture = NoGesture
    /\ pendingCommit = FALSE
    /\ tIndex = 0
    /\ tOut = [kind |-> "none"]

\* ---------------------------------------------------------------- actions
\* One sample of the drag gesture, delivered to this component and to its twin.
Sample(first, active, mx) ==
    /\ Store(dragHandler(State, dragSpeed, first, active, mx))
    /\ twin' = [twin EXCEPT !.state = dragHandler(@, twin.speed, first, active, mx)]
    /\ event' = [kind |-> "drag", first |-> first, active |-> active, mx |-> mx,
                 before |-> Before]
    /\ gesture' =
          LET monotonic == IF first THEN TRUE
                           ELSE /\ gesture.monotonic
                                /\ mx * gesture.mx >= 0
                                /\ Abs(mx) >= Abs(gesture.mx)
          IN  [dragging |-> active,
               mx |-> mx,
               fromZero |-> monotonic /\ (IF first THEN mx = 0 ELSE gesture.fromZero),
               monotonic |-> monotonic,
               commits |-> IF ~monotonic THEN 0
                           ELSE (IF first THEN 0 ELSE gesture.commits)
                                + (IF dragCommits(State, first, mx) THEN 1 ELSE 0)]
    /\ pendingCommit' = (pendingCommit \/ dragCommits(State, first, mx))
    /\ UNCHANGED <<props, tIndex, tOut>>

\* pointer down: the first sample of a gesture
DragStart ==
    /\ ~gesture.dragging
    /\ \E mx \in -MaxMx..MaxMx : Sample(TRUE, TRUE, mx)

\* pointer move while the pointer is down
DragMove ==
    /\ gesture.dragging
    /\ \E mx \in -MaxMx..MaxMx : Sample(FALSE, TRUE, mx)

\* pointer up: the last sample of the gesture, active = false
DragEnd ==
    /\ gesture.dragging
    /\ \E mx \in -MaxMx..MaxMx : Sample(FALSE, FALSE, mx)

\* onClick of one of the rendered items
Click ==
    \E i \in 1..Len(visibleItems) :
        /\ Store(handleClick(State, visibleItems[i]))
        /\ twin' = [twin EXCEPT !.state = handleClick(@, visibleItemsAt(@.position)[i])]
        /\ event' = [kind |-> "click", key |-> visibleItems[i].key,
                     index |-> visibleItems[i].index, before |-> Before]
        /\ pendingCommit' = FALSE
        /\ UNCHANGED <<props, gesture, tIndex, tOut>>

Next == DragStart \/ DragMove \/ DragEnd \/ Click

Spec == Init /\ [][Next]_vars

\* ------------------------------------------- the transform, applied alone
Configs == [scale : {1, 2}, scaleRatio : {1, 3}, angle : {0, 60}, gap : {-5, 20},
            centreGap : {7, 40}, perspective : {1000}, depth : {0, 200}]

TransformInit ==
    /\ items = Images(0)
    /\ sideItems = 0
    /\ clickableSide = TRUE
    /\ dragThreshold = 1
    /\ dragSpeed = DefaultDragSpeed
    /\ config \in Configs
    /\ event = [kind |-> "mount", startPosition |-> 0]
    /\ position = Mount(0).position
    /\ preventClick = Mount(0).preventClick
    /\ lastX = Mount(0).lastX
    /\ dragSpringX = Mount(0).dragSpringX
    /\ fired = Mount(0).fired
    /\ twin = [speed |-> 1, state |-> Mount(0)]
    /\ gesture = NoGesture
    /\ pendingCommit = FALSE
    /\ tIndex = 0
    /\ tOut = [kind |-> "none"]

\* The style of one item with the given index: the `update` transform and zIndex.
ItemStyle ==
    \E index \in -MaxOffset..MaxOffset :
        /\ tIndex' = index
        /\ tOut' = [kind |-> "style", transform |-> getTransform(index),
                    transformDiv |-> getTransformDiv(index), zIndex |-> getZIndex(index)]
        /\ UNCHANGED <<props, position, preventClick, lastX, dragSpringX, fired, event,
                       gesture, pendingCommit, twin>>

TransformNext == ItemStyle

TransformSpec == TransformInit /\ [][TransformNext]_vars

\* =================================================================== claims
N == Len(items)

ItemClicked(key) == [name |-> "itemClicked", item |-> items[key + 1]]

SideItemClicked(key) == [name |-> "sideItemClicked", item |-> items[key + 1]]

\* C1: with at least one item, after mounting with any startPosition and after
\* any drag samples and clicks on visible items, position is an integer in
\* [0, N-1].
C1_PositionInBounds == N >= 1 => position \in 0..(N - 1)

\* C1 witness: a click that moved the position to the last item of a list of
\* several items, after a gesture that committed.
C1_Witness ==
    /\ N >= 2
    /\ event.kind = "click"
    /\ fired # << >>
    /\ event.index # 0
    /\ position = N - 1
    /\ gesture.commits > 0

\* C2 as stated, for lists of at least one item and gestures whose first
\* sample has movement 0: in a gesture whose movements are monotonic from 0 to
\* d, the number of commits is exactly floor(abs(d) / dragThreshold), and each
\* commit moves the position one step in direction -sign(d), clamped.
C2_ExactCommitCount ==
    N >= 1 /\ gesture.fromZero /\ gesture.monotonic =>
        /\ gesture.commits = Abs(gesture.mx) \div dragThreshold
        /\ event.kind = "drag" /\ dragCommits(event.before, event.first, event.mx)
              => position = clampPosition(event.before.position - Sign(gesture.mx))

\* C2 amended: in such a gesture the number of commits is at most
\* floor(abs(d) / dragThreshold), is 0 when abs(d) <= dragThreshold and at least
\* 1 when abs(d) > dragThreshold; each commit moves the position one step in
\* direction -sign(d), clamped.
C2_CommitCountBounds ==
    gesture.monotonic =>
        /\ gesture.commits <= Abs(gesture.mx) \div dragThreshold
        /\ Abs(gesture.mx) <= dragThreshold => gesture.commits = 0
        /\ Abs(gesture.mx) > dragThreshold => gesture.commits >= 1
        /\ event.kind = "drag" /\ dragCommits(event.before, event.first, event.mx)
              => position = clampPosition(event.before.position - Sign(gesture.mx))

\* C2 witness: a monotonic gesture from 0 with two commits, fewer than
\* floor(abs(d) / dragThreshold), that moved the position by two.
C2_Witness ==
    /\ gesture.monotonic
    /\ gesture.fromZero
    /\ gesture.mx > 0
    /\ event.kind = "drag"
    /\ event.before.position = 1
    /\ position = 0
    /\ gesture.commits = 2
    /\ gesture.commits < Abs(gesture.mx) \div dragThreshold

\* C3: once a sample has committed and no click was handled since, the next
\* click, on any visible item and with either clickableSide, fires nothing and
\* leaves position unchanged, whatever samples came in between.
C3_ClickSuppressed ==
    event.kind = "click" /\ event.before.pending
        => fired = << >> /\ position = event.before.position

\* C3 witness: a click that fired nothing, handled after a gesture that
\* committed and has ended.
C3_Witness ==
    /\ event.kind = "click"
    /\ event.before.pending
    /\ fired = << >>
    /\ ~pendingCommit
    /\ ~gesture.dragging
    /\ gesture.commits > 0
    /\ event.index # 0
    /\ clickableSide

\* C4: for every position p in [0, N-1] the visible sequence holds exactly the
\* original indices i with max(0, p - s) <= i < min(N, p + s + 1), each once, in
\* ascending order, each with key = i, index = i - p and the item at i.
C4_WindowContents ==
    \A p \in 0..(N - 1) :
        LET v == visibleItemsAt(p)
            lo == Max(0, p - sideItems)
            hi == Min(N, p + sideItems + 1)
        IN  /\ Len(v) = hi - lo
            /\ \A i \in 1..Len(v) :
                  /\ v[i].key = lo + i - 1
                  /\ v[i].key \in 0..(N - 1)
                  /\ v[i].index = v[i].key - p
                  /\ v[i].item = items[v[i].key + 1]

\* C4 witness: a rendered window cut at both ends of the list around a
\* position reached by a drag commit.
C4_Witness ==
    /\ N = 3
    /\ sideItems = 2
    /\ position = 1
    /\ event.kind = "drag"
    /\ pendingCommit
    /\ Len(visibleItems) = 3

\* C5: with at least one item, the visible window holds exactly one item with
\* index 0, whose key is position; at the ends of the list the window is cut,
\* not re-centred: min(s, p) items before the centre and min(s, N-1-p) after.
C5_UniqueCentre ==
    N >= 1 =>
        LET v == visibleItems
            centres == {i \in 1..Len(v) : v[i].index = 0}
        IN  /\ Cardinality(centres) = 1
            /\ \A i \in centres : v[i].key = position
            /\ Cardinality({i \in 1..Len(v) : v[i].index < 0}) = Min(sideItems, position)
            /\ Cardinality({i \in 1..Len(v) : v[i].index > 0})
                  = Min(sideItems, N - 1 - position)

\* C5 witness: after a click moved the position to the last item, the window
\* has items before the centre and none after it.
C5_Witness ==
    /\ N = 3
    /\ sideItems >= 1
    /\ position = 2
    /\ event.kind = "click"
    /\ fired # << >>
    /\ event.index > 0
    /\ visibleItems[Len(visibleItems)].index = 0

\* C6: with clickableSide and no suppression, a click on a visible item with
\* index k # 0 fires sideItemClicked with that item and changes position by
\* exactly sign(k), not by k.
C6_SideClickOneStep ==
    event.kind = "click" /\ clickableSide /\ ~event.before.preventClick
    /\ event.index # 0
        => /\ fired = <<SideItemClicked(event.key)>>
           /\ position = event.before.position + Sign(event.index)

\* C6 witness: a click on the item two places after the centre moved the
\* position by one.
C6_Witness ==
    /\ event.kind = "click"
    /\ event.index = 2
    /\ clickableSide
    /\ ~event.before.preventClick
    /\ fired = <<SideItemClicked(event.key)>>
    /\ position = event.before.position + 1

\* C7: a click on the centre item, and a click on a side item without
\* clickableSide, leave position, the drag baseline and the visible window
\* unchanged; a click changes position only when the item is a side item,
\* clickableSide is set and the click is not suppressed.
C7_ClickFrame ==
    event.kind = "click" =>
        /\ (event.index = 0 \/ ~clickableSide \/ event.before.preventClick)
              => /\ position = event.before.position
                 /\ lastX = event.before.lastX
                 /\ visibleItems = visibleItemsAt(event.before.position)
        /\ position # event.before.position
              => event.index # 0 /\ clickableSide /\ ~event.before.preventClick

\* C7 witness: without clickableSide, a click on a side item fired
\* sideItemClicked and the clicked item is where it was.
C7_Witness ==
    /\ event.kind = "click"
    /\ event.index = 2
    /\ ~clickableSide
    /\ fired = <<SideItemClicked(event.key)>>
    /\ position = event.before.position
    /\ lastX # 0

\* C8: a click handled without suppression fires exactly one notification,
\* itemClicked if the item's index is 0 and sideItemClicked otherwise, with the
\* clicked item; a suppressed click fires none.
C8_Dispatch ==
    event.kind = "click" =>
        fired = IF event.before.preventClick THEN << >>
                ELSE IF event.index = 0 THEN <<ItemClicked(event.key)>>
                ELSE <<SideItemClicked(event.key)>>

\* C8 witness: the centre item, not the first of the list, was clicked and
\* itemClicked fired with it, after a drag that committed.
C8_Witness ==
    /\ event.kind = "click"
    /\ event.index = 0
    /\ event.key > 0
    /\ fired = <<ItemClicked(event.key)>>
    /\ gesture.commits > 0

\* C9: two runs with the same props and events except dragSpeed agree on
\* position, the drag baseline, the suppression flag and the notifications
\* fired, after every event.
C9_DragSpeedIgnored ==
    /\ twin.speed # dragSpeed
    /\ twin.state.position = position
    /\ twin.state.lastX = lastX
    /\ twin.state.preventClick = preventClick
    /\ twin.state.fired = fired

\* C9 witness: after a sample that committed, the two runs differ in the
\* follow offset.
C9_Witness ==
    /\ event.kind = "drag"
    /\ lastX = event.mx
    /\ preventClick
    /\ N >= 2
    /\ position = 0
    /\ twin.state.dragSpringX # dragSpringX

\* The transform of C10 for index r.
ExpectedTransform(r) ==
    [perspective |-> config.perspective,
     transX |-> IF r = 0 THEN 0 ELSE config.centreGap * Sign(r) + config.gap * r,
     rotation |-> IF r = 0 THEN 0 ELSE -(Sign(r) * config.angle),
     scaleXY |-> IF r = 0 THEN config.scale ELSE config.scale * config.scaleRatio,
     transZ |-> IF r = 0 THEN 0 ELSE -config.depth]

\* C10: for every index r the transform has transX = 0 if r = 0 else
\* centreGap * sign(r) + gap * r, rotation = 0 if r = 0 else -sign(r) * angle,
\* scaleXY = scale if r = 0 else scale * scaleRatio, transZ = 0 if r = 0 else
\* -depth, and zIndex = 100 - abs(r), in both versions of the component; index
\* 0 gives 0, 0, 0, scale and index 3 gives transX = centreGap + 3 * gap.
C10_TransformFormula ==
    tOut.kind = "style" =>
        /\ tOut.transform = ExpectedTransform(tIndex)
        /\ tOut.transformDiv = ExpectedTransform(tIndex)
        /\ tOut.zIndex = 100 - Abs(tIndex)
        /\ tIndex = 0 =>
              /\ tOut.transform.transX = 0
              /\ tOut.transform.rotation = 0
              /\ tOut.transform.transZ = 0
              /\ tOut.transform.scaleXY = config.scale
        /\ tIndex = 3 => tOut.transform.transX = config.centreGap + 3 * config.gap

\* C10 witness: the style of index 3 under a configuration that is not the
\* default one.
C10_Witness ==
    /\ tOut.kind = "style"
    /\ tIndex = 3
    /\ config.gap = -5
    /\ config.scaleRatio = 3
    /\ tOut.transform.transX = config.centreGap - 15
    /\ tOut.zIndex = 97

\* C11: for every k > 0 the transforms of indices +k and -k have opposite
\* rotation and opposite transX, the same transZ, the same scaleXY and the same
\* zIndex; the item of index 0 has a zIndex greater than every other item's.
C11_TransformSymmetry ==
    tOut.kind = "style" /\ tIndex # 0 =>
        LET mirror == getTransform(-tIndex)
        IN  /\ tOut.transform.rotation = -mirror.rotation
            /\ tOut.transform.transX = -mirror.transX
            /\ tOut.transform.transZ = mirror.transZ
            /\ tOut.transform.scaleXY = mirror.scaleXY
            /\ tOut.zIndex = getZIndex(-tIndex)
            /\ tOut.zIndex < getZIndex(0)

\* C11 witness: the style of index -2 under an angle of 60: rotated by +60,
\* where index 2 is rotated by -60.
C11_Witness ==
    /\ tOut.kind = "style"
    /\ tIndex = -2
    /\ config.angle = 60
    /\ tOut.transform.rotation = 60
    /\ getTransform(2).rotation = -60
    /\ tOut.zIndex = 98

\* C12: with at least one item the initial position is max(0, min(startPosition,
\* N-1)): startPosition itself when it is in [0, N-1], 0 when it is negative and
\* N-1 when it is N or more; clamping twice is clamping once, and mounting
\* fires no notification.
C12_InitialPosition ==
    event.kind = "mount" /\ N >= 1 =>
        LET sp == event.startPosition
        IN  /\ position = (IF sp < 0 THEN 0 ELSE IF sp >= N THEN N - 1 ELSE sp)
            /\ position = initialPosition(sp)
            /\ clampPosition(position) = position
            /\ clampPosition(clampPosition(sp)) = clampPosition(sp)
            /\ fired = << >>
            /\ ~preventClick

\* C12 witness: mounted with a startPosition past the end of a list of several
\* items, on its last item.
C12_Witness ==
    /\ event.kind = "mount"
    /\ N >= 2
    /\ event.startPosition > N - 1
    /\ position = N - 1

\* The baseline a sample is measured from, and its distance from it.
SampleBase == IF event.first THEN 0 ELSE event.before.lastX

SampleDelta == event.mx - SampleBase

\* C13: a sample whose distance from the baseline is strictly more than
\* dragThreshold sets position to clamp(position - sign(distance)), the
\* baseline to its movement and the suppression flag to true; any other sample,
\* one at exactly dragThreshold included, leaves the three unchanged.  No sample
\* moves position by more than 1, and a positive distance never increases it.
C13_SampleTransition ==
    event.kind = "drag" =>
        /\ IF Abs(SampleDelta) > dragThreshold
           THEN /\ position = Max(0, Min(event.before.position - Sign(SampleDelta), N - 1))
                /\ lastX = event.mx
                /\ preventClick
           ELSE /\ position = event.before.position
                /\ lastX = SampleBase
                /\ preventClick = event.before.preventClick
        /\ Abs(position - event.before.position) <= 1
        /\ SampleDelta > 0 => position <= event.before.position
        /\ SampleDelta < 0 => position >= event.before.position

\* C13 witness: after a commit moved the baseline, a sample at exactly
\* dragThreshold from it changed nothing.
C13_Witness ==
    /\ event.kind = "drag"
    /\ ~event.first
    /\ event.before.lastX # 0
    /\ Abs(SampleDelta) = dragThreshold
    /\ lastX = event.before.lastX
    /\ position = event.before.position
    /\ N >= 2

\* C14: the suppression flag is false after mounting, is set only by a sample
\* that crosses the threshold, and is false after every click; a click handled
\* with no commit since the click before it is dispatched, not suppressed.
C14_SuppressionOneShot ==
    /\ event.kind = "mount" => ~preventClick
    /\ preventClick = pendingCommit
    /\ event.kind = "drag" /\ preventClick /\ ~event.before.preventClick
          => Abs(SampleDelta) > dragThreshold
    /\ event.kind = "click" =>
          /\ ~preventClick
          /\ ~event.before.pending =>
                /\ ~event.before.preventClick
                /\ Len(fired) = 1

\* C14 witness: a gesture committed, a click since then took the suppression,
\* and this click, with no commit in between, fired a notification.
C14_Witness ==
    /\ event.kind = "click"
    /\ ~event.before.pending
    /\ gesture.commits > 0
    /\ ~gesture.dragging
    /\ Len(fired) = 1

\* C15: the first sample of a gesture is measured from 0, whatever baseline an
\* earlier gesture left: it commits exactly when abs(mx) > dragThreshold, and
\* the baseline after it is mx or 0, so what the gesture commits depends on
\* its own samples and the position it starts from.
C15_BaselineReset ==
    event.kind = "drag" /\ event.first =>
        /\ lastX = (IF Abs(event.mx) > dragThreshold THEN event.mx ELSE 0)
        /\ position = (IF Abs(event.mx) > dragThreshold
                       THEN Max(0, Min(event.before.position - Sign(event.mx), N - 1))
                       ELSE event.before.position)
        /\ dragSpringX = event.mx * dragSpeed
        /\ gesture.commits = (IF Abs(event.mx) > dragThreshold THEN 1 ELSE 0)

\* C15 witness: an earlier gesture left a baseline from which this first sample
\* lies more than dragThreshold away, and the sample did not commit.
C15_Witness ==
    /\ event.kind = "drag"
    /\ event.first
    /\ event.before.lastX # 0
    /\ Abs(event.mx - event.before.lastX) > dragThreshold
    /\ Abs(event.mx) <= dragThreshold
    /\ lastX = 0
    /\ position = event.before.position
    /\ ~preventClick

\* C16: a sample sets the follow offset to its distance from the baseline in
\* force before its own commit, times dragSpeed, when the gesture is active,
\* and to 0 when it is not; the follow offset is 0 whenever no gesture is in
\* progress.
C16_FollowOffset ==
    /\ event.kind = "drag" =>
          /\ dragSpringX = (IF event.active THEN SampleDelta * dragSpeed ELSE 0)
          /\ twin.state.dragSpringX
                = (IF event.active THEN SampleDelta * twin.speed ELSE 0)
    /\ ~gesture.dragging => dragSpringX = 0 /\ twin.state.dragSpringX = 0

\* C16 witness: an active sample that committed, so that the baseline is now
\* its own movement, left a follow offset that is not 0.
C16_Witness ==
    /\ event.kind = "drag"
    /\ event.active
    /\ ~event.first
    /\ lastX = event.mx
    /\ lastX # event.before.lastX
    /\ dragSpringX = (event.mx - event.before.lastX) * dragSpeed
    /\ dragSpringX # 0

\* C17: for every item of the visible window, position + sign(index), which
\* handleClick stores without clamping, equals its clamped value; and a click
\* that moved the position left it at the clamped value.
C17_ClickNeedsNoClamp ==
    /\ \A i \in 1..Len(visibleItems) :
          LET target == position + Sign(visibleItems[i].index)
          IN  target = Max(0, Min(target, N - 1))
    /\ event.kind = "click" /\ position # event.before.position =>
          LET target == event.before.position + Sign(event.index)
          IN  position = Max(0, Min(target, N - 1))

\* C17 witness: a click on a side item moved the position to the first item,
\* and every other visible item is after the centre.
C17_Witness ==
    /\ event.kind = "click"
    /\ event.index < 0
    /\ event.before.position = 1
    /\ position = 0
    /\ Len(visibleItems) >= 2
    /\ visibleItems[1].index = 0

\* C18: in a gesture whose movements are monotonic from 0 to d the number of
\* commits never exceeds floor(abs(d) / dragThreshold), and within a gesture
\* each commit lies strictly more than dragThreshold from the commit before it
\* (from 0 for the first one).
C18_CommitUpperBound ==
    /\ gesture.monotonic => gesture.commits * dragThreshold <= Abs(gesture.mx)
    /\ gesture.monotonic => gesture.commits <= Abs(gesture.mx) \div dragThreshold
    /\ event.kind = "drag" /\ lastX # SampleBase =>
          /\ lastX = event.mx
          /\ Abs(event.mx - SampleBase) > dragThreshold

\* C18 witness: the second commit of a monotonic gesture, dragThreshold + 1
\* past the first.
C18_Witness ==
    /\ event.kind = "drag"
    /\ ~event.first
    /\ gesture.monotonic
    /\ gesture.commits = 2
    /\ event.before.lastX # 0
    /\ lastX = event.mx
    /\ Abs(lastX - event.before.lastX) = dragThreshold + 1

\* C19: a sample more than dragThreshold past the baseline found at position 0
\* (or more than dragThreshold before it, found at position N-1) leaves the
\* position where it is, and still sets the baseline to its movement and the
\* suppression flag, so that the next click is suppressed.
C19_CommitAtBoundary ==
    /\ event.kind = "drag" /\ N >= 1
       /\ \/ event.before.position = 0 /\ SampleDelta > dragThreshold
          \/ event.before.position = N - 1 /\ SampleDelta < -dragThreshold
          => /\ position = event.before.position
             /\ lastX = event.mx
             /\ preventClick
             /\ pendingCommit
    /\ event.kind = "click" /\ event.before.preventClick
          => fired = << >> /\ position = event.before.position /\ ~preventClick

\* C19 witness: a sample found the last item of a list of several items
\* centred and the flag clear, crossed the threshold outwards, and left the
\* position there with the flag set.
C19_Witness ==
    /\ event.kind = "drag"
    /\ N >= 2
    /\ event.before.position = N - 1
    /\ ~event.before.preventClick
    /\ SampleDelta < -dragThreshold
    /\ position = N - 1
    /\ lastX = event.mx
    /\ preventClick

\* C20: the released sample (active = false) is tested like any other: more
\* than dragThreshold from the baseline it moves the position, sets the
\* baseline and the suppression flag, and the follow offset is 0.
C20_ReleaseCommits ==
    event.kind = "drag" /\ ~event.active =>
        /\ dragSpringX = 0
        /\ Abs(SampleDelta) > dragThreshold =>
              /\ position = Max(0, Min(event.before.position - Sign(SampleDelta), N - 1))
              /\ lastX = event.mx
              /\ preventClick
              /\ pendingCommit

\* C20 witness: a released sample moved the position, with no commit pending
\* before it.
C20_Witness ==
    /\ event.kind = "drag"
    /\ ~event.active
    /\ ~event.before.pending
    /\ position # event.before.position
    /\ preventClick
    /\ dragSpringX = 0

====
